---- MODULE Spec2Model ----
(***************************************************************************)
(* A model of pystdrules/script.py: the command-line driver main() and the *)
(* functions it calls (check_permissions, install_poetry,                   *)
(* create_virtualenv, install_tools, install_dependencies, run_checks).     *)
(*                                                                         *)
(* A run of the program is a record (variable run): the parsed arguments,  *)
(* the locals of main, the position in main, the process's working         *)
(* directory, the console, the calls made to the outside world, and the    *)
(* environment the run acts on (file system, tools registered with poetry, *)
(* whether poetry is on the search path).  Text is a sequence of string    *)
(* pieces, concatenated with \o.  A path is a record [abs, segs].          *)
(*                                                                         *)
(* The variable twin is a second run of the same program, started in the   *)
(* same environment with the same arguments except --env-dir, and fed the  *)
(* same outcomes of every external command.                                *)
(***************************************************************************)
EXTENDS Integers, Sequences, FiniteSets, TLC

VARIABLES run, twin, harness

vars == <<run, twin, harness>>

\* ---------------------------------------------------------------- bounds
\* how many times the install_tools harness calls install_tools
MaxCalls == 2

\* ------------------------------------------------------- program literals
tools == <<"black", "mypy", "ruff", "bandit", "pydocstyle">>

checks ==
  << [description |-> "Lint Checking", command |-> <<"ruff", "check", ".">>],
     [description |-> "Type Checking", command |-> <<"mypy", ".">>],
     [description |-> "Formatting with Black", command |-> <<"black", ".">>],
     [description |-> "Security Check with Bandit", command |-> <<"bandit", "-r", ".">>],
     [description |-> "Docstring Check with Pydocstyle", command |-> <<"pydocstyle", ".">>] >>

MarkerName == "test_permissions.txt"

\* f"log_{timestamp}.txt": the timestamp is read once, so the name is one token
LogName == "log_<timestamp>.txt"

InstallerCmd == <<"curl", "-sSL", "https://install.python-poetry.org", "|", "python3">>
EnvUseCmd == <<"poetry", "env", "use", "python">>
InstallCmd == <<"poetry", "install">>
ShowCmd(tool) == <<"poetry", "show", tool>>
AddCmd(tool) == <<"poetry", "add", "--group", "dev", tool>>

Banner ==
  <<"All checks (linting, type checking, formatting, security, and docstring validation) have been completed!">>

\* ------------------------------------------------------------------ paths
Path(abs, segs) == [abs |-> abs, segs |-> segs]

NoPath == Path(FALSE, <<>>)

\* os.path.join(directory, name) for a relative name
join(p, name) == [p EXCEPT !.segs = @ \o <<name>>]

RECURSIVE Norm(_)
Norm(s) ==
  IF s = <<>> THEN <<>>
  ELSE IF Head(s) = "." THEN Norm(Tail(s))
  ELSE <<Head(s)>> \o Norm(Tail(s))

\* the file a path names for a process whose working directory is cwd
Resolve(cwd, p) == IF p.abs THEN Norm(p.segs) ELSE Norm(cwd \o p.segs)

Parent(a) == SubSeq(a, 1, Len(a) - 1)

RECURSIVE Slashed(_)
Slashed(s) ==
  IF s = <<>> THEN <<>>
  ELSE IF Len(s) = 1 THEN s
  ELSE <<Head(s), "/">> \o Slashed(Tail(s))

\* str(path) as text pieces
PathText(p) == (IF p.abs THEN <<"/">> ELSE <<>>) \o Slashed(p.segs)

\* ------------------------------------------------------------ file system
\* fs = [dirs, rodirs, files, rofiles, umask_ro]: the directories, the ones
\* the user may not write to, the files with their text, the files the user
\* may not write to, and whether the umask strips the owner's write bit.
Result(err, fs) == [err |-> err, fs |-> fs]

exists(fs, a) == a \in fs.dirs \/ a \in DOMAIN fs.files

PutFile(fs, a, text) ==
  [fs EXCEPT !.files = [q \in (DOMAIN fs.files) \cup {a} |->
                          IF q = a THEN text ELSE fs.files[q]]]

\* open(a, mode) for mode "w" or "a"
fs_open(fs, a, mode) ==
  IF a \in fs.dirs THEN Result("IsADirectoryError", fs)
  ELSE IF Parent(a) \notin fs.dirs THEN Result("FileNotFoundError", fs)
  ELSE IF a \in DOMAIN fs.files
    THEN IF a \in fs.rofiles THEN Result("PermissionError", fs)
         ELSE IF mode = "w" THEN Result("", PutFile(fs, a, <<>>))
         ELSE Result("", fs)
  ELSE IF Parent(a) \in fs.rodirs THEN Result("PermissionError", fs)
  ELSE Result("", [PutFile(fs, a, <<>>) EXCEPT
                     !.rofiles = IF fs.umask_ro THEN @ \cup {a} ELSE @])

\* with open(a, mode) as f: f.write(text)
open_write(fs, a, mode, text) ==
  LET o == fs_open(fs, a, mode)
  IN IF o.err # "" THEN o
     ELSE Result("", PutFile(o.fs, a, o.fs.files[a] \o text))

\* os.remove(a)
fs_remove(fs, a) ==
  IF a \in fs.dirs THEN Result("IsADirectoryError", fs)
  ELSE IF a \notin DOMAIN fs.files THEN Result("FileNotFoundError", fs)
  ELSE IF Parent(a) \in fs.rodirs THEN Result("PermissionError", fs)
  ELSE Result("", [fs EXCEPT
                     !.files = [q \in (DOMAIN fs.files) \ {a} |-> fs.files[q]],
                     !.rofiles = @ \ {a}])

\* os.makedirs(a): the missing ancestors first, then a; the umask applies to
\* every directory made
RECURSIVE makedirs(_, _)
makedirs(fs, a) ==
  IF a \in fs.dirs THEN Result("FileExistsError", fs)
  ELSE LET up == IF a = <<>> \/ Parent(a) \in fs.dirs
                 THEN Result("", fs) ELSE makedirs(fs, Parent(a))
       IN IF up.err # "" THEN up
          ELSE IF a # <<>> /\ Parent(a) \in up.fs.rodirs
            THEN Result("PermissionError", up.fs)
          ELSE Result("", [up.fs EXCEPT
                             !.dirs = @ \cup {a},
                             !.rodirs = IF fs.umask_ro THEN @ \cup {a} ELSE @])

\* the files directly inside directory d, with their text
DirFiles(fs, d) ==
  [q \in {p \in DOMAIN fs.files : Parent(p) = d} |-> fs.files[q]]

\* ------------------------------------------------- the run and its steps
\* one call to the outside world: a process run, a file opened, a lookup
Ev(op, arg, rc, err) == [op |-> op, arg |-> arg, rc |-> rc, err |-> err]

Record(r, e) == [r EXCEPT !.trace = Append(@, e)]

\* print(text)
stdout_print(r, text) == [r EXCEPT !.console = @ \o text \o <<"\n">>]

\* an exception nobody catches ends main
Raise(r, exc, at) == [r EXCEPT !.pc = "raised", !.exc = exc, !.exc_at = at]

Then(r, pc) == IF r.pc = "raised" THEN r ELSE [r EXCEPT !.pc = pc]

\* subprocess.run without check=True: a non-zero exit raises nothing
sub_run_unchecked(r, argv, launched, rc, at) ==
  IF ~launched
    THEN Raise(Record(r, Ev("run", argv, 0 - 1, "FileNotFoundError")),
               "FileNotFoundError", at)
  ELSE Record(r, Ev("run", argv, rc, ""))

\* subprocess.run(argv, check=True): argv cannot be launched, exits non-zero
\* (CalledProcessError), or exits zero
sub_run(r, argv, launched, rc, at) ==
  IF ~launched
    THEN Raise(Record(r, Ev("run", argv, 0 - 1, "FileNotFoundError")),
               "FileNotFoundError", at)
  ELSE IF rc # 0
    THEN Raise(Record(r, Ev("run", argv, rc, "")), "CalledProcessError", at)
  ELSE Record(r, Ev("run", argv, rc, ""))

\* what the external check prints: one token per stream and command
Stdout(command) == <<"<stdout of ", command[1], ">">>
Stderr(command) == <<"<stderr of ", command[1], ">">>

\* exit code of "poetry show <tool>": zero iff the tool is a registered dependency
poetry_show(registered, tool) == IF tool \in registered THEN 0 ELSE 1

check_permissions(fs, cwd, directory) ==
  LET test_file == join(directory, MarkerName)
      a == Resolve(cwd, test_file)
      o == fs_open(fs, a, "w")
  IN IF o.err = "PermissionError" THEN [ret |-> "False", fs |-> fs]
     ELSE IF o.err # "" THEN [ret |-> o.err, fs |-> fs]
     ELSE LET d == fs_remove(o.fs, a)
          IN IF d.err = "" THEN [ret |-> "True", fs |-> d.fs]
             ELSE IF d.err = "PermissionError" THEN [ret |-> "False", fs |-> o.fs]
             ELSE [ret |-> d.err, fs |-> o.fs]

\* curl_present: curl is on the search path, so the installer can be launched
install_poetry(r, curl_present, rc) ==
  sub_run(stdout_print(r, <<"Poetry is not installed. Installing Poetry...">>),
          InstallerCmd, curl_present, rc, "install_poetry:24")

\* create_virtualenv binding the environment in the directory of --env-dir
create_virtualenv_in_dir(r, rc) ==
  sub_run(stdout_print(r, <<"Creating virtual environment with Poetry...">>),
          <<"poetry", "env", "use">> \o PathText(r.venv_dir),
          r.poetry_on_path, rc, "create_virtualenv:33")

create_virtualenv(r, rc) ==
  sub_run(stdout_print(r, <<"Creating virtual environment with Poetry...">>),
          EnvUseCmd, r.poetry_on_path, rc, "create_virtualenv:33")

install_dependencies(r, rc) ==
  sub_run(stdout_print(r, <<"Installing project dependencies using Poetry...">>),
          InstallCmd, r.poetry_on_path, rc, "install_dependencies:51")

\* install_tools installing every tool, whatever "poetry show" answers
install_tools_body_always(r, rc) ==
  LET tool == tools[r.i]
      r1 == stdout_print(r, <<"Checking if ", tool, " is installed...">>)
      shown == poetry_show(r.registered, tool)
  IN IF ~r.poetry_on_path
       THEN Raise(Record(r1, Ev("run", ShowCmd(tool), 0 - 1, "FileNotFoundError")),
                  "FileNotFoundError", "install_tools:41")
     ELSE LET r2 == Record(r1, Ev("run", ShowCmd(tool), shown, ""))
              r3 == sub_run(stdout_print(r2, <<tool, " is not installed. Installing ",
                                               tool, "...">>),
                            AddCmd(tool), r.poetry_on_path, rc, "install_tools:43")
          IN IF r3.pc = "raised" THEN r3
             ELSE [r3 EXCEPT !.registered = @ \cup {tool}]

\* one iteration of the loop of install_tools, for tools[r.i]
install_tools_body(r, rc) ==
  LET tool == tools[r.i]
      r1 == stdout_print(r, <<"Checking if ", tool, " is installed...">>)
      shown == poetry_show(r.registered, tool)
  IN IF ~r.poetry_on_path
       THEN Raise(Record(r1, Ev("run", ShowCmd(tool), 0 - 1, "FileNotFoundError")),
                  "FileNotFoundError", "install_tools:41")
     ELSE LET r2 == Record(r1, Ev("run", ShowCmd(tool), shown, ""))
          IN IF shown # 0
               THEN LET r3 == sub_run(stdout_print(r2, <<tool, " is not installed. Installing ",
                                                          tool, "...">>),
                                      AddCmd(tool), r.poetry_on_path, rc, "install_tools:43")
                    IN IF r3.pc = "raised" THEN r3
                       ELSE [r3 EXCEPT !.registered = @ \cup {tool}]
             ELSE stdout_print(r2, <<tool, " is already installed.">>)

\* the loop header: the next tool, or the return of install_tools
install_tools_next(r) ==
  IF r.pc = "raised" THEN r
  ELSE IF r.i < Len(tools) THEN [r EXCEPT !.i = @ + 1]
  ELSE [r EXCEPT !.i = 1, !.pc = "install_dependencies"]

install_tools_iter(r, rc) == install_tools_next(install_tools_body(r, rc))

\* os.chdir(project_folder), before the loop of run_checks
run_checks_chdir(r) ==
  LET a == Resolve(r.cwd, r.project_folder)
  IN IF a \notin r.fs.dirs
       THEN Raise(Record(r, Ev("chdir", a, 0, "FileNotFoundError")),
                  "FileNotFoundError", "run_checks:64")
     ELSE [Record(r, Ev("chdir", a, 0, "")) EXCEPT !.cwd = a, !.i = 1, !.pc = "checks"]

\* the try/except around one append to the log in run_checks
log_or_console(r, text, fallback, at) ==
  LET a == Resolve(r.cwd, r.log_file)
      o == open_write(r.fs, a, "a", text)
      r1 == [Record(r, Ev("open_a", a, 0, o.err)) EXCEPT !.fs = o.fs]
  IN IF o.err = "" THEN r1
     ELSE IF o.err = "FileNotFoundError" THEN stdout_print(r1, fallback)
     ELSE Raise(r1, o.err, at)

\* run_checks without the except clause: a failing check ends the loop
run_checks_body_uncaught(r, launched, rc) ==
  LET description == checks[r.i].description
      command == checks[r.i].command
      r1 == stdout_print(r, <<"------------------------------- ", description,
                              " -------------------------------">>)
  IN IF ~launched
       THEN Raise(Record(r1, Ev("run", command, 0 - 1, "FileNotFoundError")),
                  "FileNotFoundError", "run_checks:73")
     ELSE LET r2 == Record(r1, Ev("run", command, rc, ""))
          IN IF rc = 0
               THEN log_or_console(r2,
                      <<description, " succeeded.\n">> \o Stdout(command),
                      <<"Log file not found. Output for ", description, ":\n">>
                         \o Stdout(command),
                      "run_checks:76")
             ELSE Raise(r2, "CalledProcessError", "run_checks:73")

\* run_checks logging a failed check's stdout where its stderr belongs
run_checks_body_stdout(r, launched, rc) ==
  LET description == checks[r.i].description
      command == checks[r.i].command
      r1 == stdout_print(r, <<"------------------------------- ", description,
                              " -------------------------------">>)
  IN IF ~launched
       THEN Raise(Record(r1, Ev("run", command, 0 - 1, "FileNotFoundError")),
                  "FileNotFoundError", "run_checks:73")
     ELSE LET r2 == Record(r1, Ev("run", command, rc, ""))
          IN IF rc = 0
               THEN log_or_console(r2,
                      <<description, " succeeded.\n">> \o Stdout(command),
                      <<"Log file not found. Output for ", description, ":\n">>
                         \o Stdout(command),
                      "run_checks:76")
             ELSE log_or_console(r2,
                      <<description, " failed with error:\n">> \o Stdout(command) \o <<"\n">>,
                      <<"Log file not found. Error for ", description, ":\n">>
                         \o Stdout(command),
                      "run_checks:84")

\* one iteration of the loop of run_checks, for checks[r.i]
run_checks_body(r, launched, rc) ==
  LET description == checks[r.i].description
      command == checks[r.i].command
      r1 == stdout_print(r, <<"------------------------------- ", description,
                              " -------------------------------">>)
  IN IF ~launched
       THEN Raise(Record(r1, Ev("run", command, 0 - 1, "FileNotFoundError")),
                  "FileNotFoundError", "run_checks:73")
     ELSE LET r2 == Record(r1, Ev("run", command, rc, ""))
          IN IF rc = 0
               THEN log_or_console(r2,
                      <<description, " succeeded.\n">> \o Stdout(command),
                      <<"Log file not found. Output for ", description, ":\n">>
                         \o Stdout(command),
                      "run_checks:76")
             ELSE log_or_console(r2,
                      <<description, " failed with error:\n">> \o Stderr(command) \o <<"\n">>,
                      <<"Log file not found. Error for ", description, ":\n">>
                         \o Stderr(command),
                      "run_checks:84")

\* the loop header: the next check, or the return of run_checks
run_checks_next(r) ==
  IF r.pc = "raised" THEN r
  ELSE IF r.i < Len(checks) THEN [r EXCEPT !.i = @ + 1]
  ELSE [r EXCEPT !.i = 1, !.pc = "banner"]

run_checks_iter(r, launched, rc) == run_checks_next(run_checks_body(r, launched, rc))

\* main, lines 118-126: the log file's name and the log folder
main_log_folder(r) ==
  LET log_file == join(r.log_folder, LogName)
      folder == Resolve(r.cwd, r.log_folder)
      r1 == [r EXCEPT !.log_file = log_file]
  IN IF exists(r.fs, folder) THEN [r1 EXCEPT !.pc = "create_log"]
     ELSE LET made == makedirs(r.fs, folder)
          IN IF made.err # "" THEN Raise(r1, made.err, "main:126")
             ELSE [r1 EXCEPT !.fs = made.fs, !.pc = "create_log"]

\* main, lines 128-132: the log file is created with its first line
main_create_log(r) ==
  LET a == Resolve(r.cwd, r.log_file)
      o == open_write(r.fs, a, "w",
                      <<"Log file created: ">> \o PathText(r.log_file) \o <<"\n">>)
      r1 == [Record(r, Ev("open_w", a, 0, o.err)) EXCEPT !.fs = o.fs]
  IN IF o.err = "" THEN [r1 EXCEPT !.pc = "check_permissions"]
     ELSE IF o.err = "FileNotFoundError"
       THEN [stdout_print(r1, <<"Log file ">> \o PathText(r.log_file)
                                 \o <<" not found, output will be shown on stdout.">>)
               EXCEPT !.pc = "check_permissions"]
     ELSE Raise(r1, o.err, "main:129")

\* the line main prints and logs when the project folder is not writable
Denied(r) == <<"Access to '">> \o PathText(r.project_folder) \o <<"' is denied.">>

\* main, lines 135-142: the permission probe and the early return
main_check_permissions(r) ==
  LET p == check_permissions(r.fs, r.cwd, r.project_folder)
      r1 == [Record(r, Ev("check_permissions", Resolve(r.cwd, r.project_folder), 0, p.ret))
               EXCEPT !.fs = p.fs]
  IN IF p.ret = "True" THEN [r1 EXCEPT !.pc = "ensure_poetry"]
     ELSE IF p.ret # "False" THEN Raise(r1, p.ret, "check_permissions:13")
     ELSE LET r2 == stdout_print(r1, Denied(r))
              a == Resolve(r.cwd, r.log_file)
              o == open_write(r2.fs, a, "a", Denied(r) \o <<"\n">>)
              r3 == [Record(r2, Ev("open_a", a, 0, o.err)) EXCEPT !.fs = o.fs]
          IN IF o.err = "" THEN [r3 EXCEPT !.pc = "done"]
             ELSE IF o.err = "FileNotFoundError"
               THEN [stdout_print(r3, <<"Log file ">> \o PathText(r.log_file)
                                         \o <<" not found, logging to stdout.">>)
                       EXCEPT !.pc = "done"]
             ELSE Raise(r3, o.err, "main:138")

\* main running the installer whether or not poetry is found
main_ensure_poetry_always(r, curl_present, rc, installs) ==
  LET w == Record(r, Ev("which", <<"poetry">>, 0,
                        IF r.poetry_on_path THEN "found" ELSE "None"))
      r1 == install_poetry(w, curl_present, rc)
  IN IF r1.pc = "raised" THEN r1
     ELSE [r1 EXCEPT !.poetry_on_path = @ \/ installs, !.pc = "create_virtualenv"]

\* main, lines 145-146: shutil.which("poetry"), and the installer if it finds
\* nothing; curl_present says whether the installer can be launched, installs
\* whether it put poetry on the search path
main_ensure_poetry(r, curl_present, rc, installs) ==
  LET w == Record(r, Ev("which", <<"poetry">>, 0,
                        IF r.poetry_on_path THEN "found" ELSE "None"))
  IN IF r.poetry_on_path THEN [w EXCEPT !.pc = "create_virtualenv"]
     ELSE LET r1 == install_poetry(w, curl_present, rc)
          IN IF r1.pc = "raised" THEN r1
             ELSE [r1 EXCEPT !.poetry_on_path = installs, !.pc = "create_virtualenv"]

\* main, lines 149-152
main_create_virtualenv(r, rc) ==
  Then(create_virtualenv([r EXCEPT !.venv_dir = r.env_dir], rc), "install_tools")

\* main, line 158
main_install_dependencies(r, rc) == Then(install_dependencies(r, rc), "run_checks")

\* main, lines 163-165
main_banner(r) == [stdout_print(r, Banner) EXCEPT !.pc = "done"]

\* ------------------------------------------------------------ environment
ExitCodes == {0, 1}

ToolSet == {tools[k] : k \in DOMAIN tools}

\* the working directory main is started in
InitialCwd == <<"home">>

\* the values of --log-folder and --project-folder: absolute and relative
LogFolders == {Path(TRUE, <<"logs">>), Path(FALSE, <<"logs">>)}
ProjectFolders == {Path(TRUE, <<"proj">>), Path(FALSE, <<".">>)}

\* the values of --env-dir of run and of twin
EnvDirs == <<Path(TRUE, <<"venvs", "a">>), Path(FALSE, <<".venv">>)>>

\* the file systems main can be started on.  project: the project folder is
\* writable ("rw"), read-only ("ro") or absent; marker: the project folder
\* holds no test_permissions.txt, a writable one or a read-only one; logdir:
\* the log folder exists; sub: the project folder has a sub-directory with
\* the log folder's relative name; clash: a directory has the log file's name
InitialFS(log_folder, project_folder, project, marker, logdir, sub, clash, umask_ro) ==
  LET proj == Resolve(InitialCwd, project_folder)
      logs == Resolve(InitialCwd, log_folder)
      mark == proj \o <<MarkerName>>
  IN [dirs |-> {<<>>, InitialCwd}
                 \cup (IF project # "missing" THEN {proj} ELSE {})
                 \cup (IF logdir THEN {logs} ELSE {})
                 \cup (IF clash THEN {logs \o <<LogName>>} ELSE {})
                 \cup (IF sub THEN {proj \o log_folder.segs} ELSE {}),
      rodirs |-> IF project = "ro" THEN {proj} ELSE {},
      files |-> [q \in (IF marker # "none" THEN {mark} ELSE {}) |-> <<"user data\n">>],
      rofiles |-> IF marker = "ro" THEN {mark} ELSE {},
      umask_ro |-> umask_ro]

InitialFSs(log_folder, project_folder) ==
  LET shapes == [project : IF project_folder.abs THEN {"rw", "ro", "missing"}
                                                 ELSE {"rw", "ro"},
                 marker : {"none", "rw", "ro"},
                 logdir : BOOLEAN, sub : BOOLEAN, clash : BOOLEAN, umask_ro : BOOLEAN]
      sound(c) == /\ c.project = "missing" => (c.marker = "none" /\ ~c.sub)
                  /\ c.clash => c.logdir
  IN { InitialFS(log_folder, project_folder, c.project, c.marker, c.logdir, c.sub,
                 c.clash, c.umask_ro) : c \in {x \in shapes : sound(x)} }

\* the sets of tools registered with poetry when main is started: none, some,
\* all (the install_tools harness below starts from every subset)
RegisteredAtStart == {{}, {"mypy", "bandit"}, ToolSet}

\* the state of a run when main is entered (argparse has filled args)
Start(env_dir, log_folder, project_folder, fs, registered, poetry_on_path) ==
  [pc |-> "start", i |-> 1,
   env_dir |-> env_dir, log_folder |-> log_folder, project_folder |-> project_folder,
   log_file |-> NoPath, venv_dir |-> NoPath,
   cwd |-> InitialCwd, fs |-> fs,
   registered |-> registered, poetry_on_path |-> poetry_on_path,
   trace |-> <<>>, console |-> <<>>, exc |-> "", exc_at |-> ""]

Init ==
  /\ \E log_folder \in LogFolders, project_folder \in ProjectFolders,
        registered \in RegisteredAtStart, poetry_on_path \in BOOLEAN :
       \E fs \in InitialFSs(log_folder, project_folder) :
         /\ run = Start(EnvDirs[1], log_folder, project_folder, fs, registered, poetry_on_path)
         /\ twin = Start(EnvDirs[2], log_folder, project_folder, fs, registered, poetry_on_path)
  /\ harness = [calls |-> 0, mark |-> 0]

\* ---------------------------------------------------------------- actions
LogFolder ==
  /\ run.pc = "start"
  /\ run' = main_log_folder(run)
  /\ twin' = main_log_folder(twin)
  /\ UNCHANGED harness

CreateLog ==
  /\ run.pc = "create_log"
  /\ run' = main_create_log(run)
  /\ twin' = main_create_log(twin)
  /\ UNCHANGED harness

CheckPermissions ==
  /\ run.pc = "check_permissions"
  /\ run' = main_check_permissions(run)
  /\ twin' = main_check_permissions(twin)
  /\ UNCHANGED harness

EnsurePoetry ==
  /\ run.pc = "ensure_poetry"
  /\ \E curl_present \in BOOLEAN, rc \in ExitCodes, installs \in BOOLEAN :
       /\ run' = main_ensure_poetry(run, curl_present, rc, installs)
       /\ twin' = main_ensure_poetry(twin, curl_present, rc, installs)
  /\ UNCHANGED harness

CreateVirtualenv ==
  /\ run.pc = "create_virtualenv"
  /\ \E rc \in ExitCodes :
       /\ run' = main_create_virtualenv(run, rc)
       /\ twin' = main_create_virtualenv(twin, rc)
  /\ UNCHANGED harness

InstallTools ==
  /\ run.pc = "install_tools"
  /\ \E rc \in ExitCodes :
       /\ run' = install_tools_iter(run, rc)
       /\ twin' = install_tools_iter(twin, rc)
  /\ UNCHANGED harness

InstallDependencies ==
  /\ run.pc = "install_dependencies"
  /\ \E rc \in ExitCodes :
       /\ run' = main_install_dependencies(run, rc)
       /\ twin' = main_install_dependencies(twin, rc)
  /\ UNCHANGED harness

RunChecksChdir ==
  /\ run.pc = "run_checks"
  /\ run' = run_checks_chdir(run)
  /\ twin' = run_checks_chdir(twin)
  /\ UNCHANGED harness

RunChecks ==
  /\ run.pc = "checks"
  /\ \E launched \in BOOLEAN, rc \in ExitCodes :
       /\ run' = run_checks_iter(run, launched, rc)
       /\ twin' = run_checks_iter(twin, launched, rc)
  /\ UNCHANGED harness

PrintBanner ==
  /\ run.pc = "banner"
  /\ run' = main_banner(run)
  /\ twin' = main_banner(twin)
  /\ UNCHANGED harness

\* a is d or lies under d
IsUnder(a, d) == Len(a) >= Len(d) /\ SubSeq(a, 1, Len(d)) = d

\* rm -rf d, by someone else
rmtree(fs, d) ==
  [fs EXCEPT !.dirs = {a \in @ : ~IsUnder(a, d)},
             !.rodirs = {a \in @ : ~IsUnder(a, d)},
             !.files = [q \in {a \in DOMAIN @ : ~IsUnder(a, d)} |-> @[q]],
             !.rofiles = {a \in @ : ~IsUnder(a, d)}]

\* the environment: the log folder is deleted while main runs
DeleteLogFolder ==
  LET d == Resolve(InitialCwd, run.log_folder)
  IN /\ run.pc \notin {"start", "done", "raised"}
     /\ d \in run.fs.dirs
     /\ run' = [run EXCEPT !.fs = rmtree(@, d)]
     /\ twin' = [twin EXCEPT !.fs = rmtree(@, d)]
     /\ UNCHANGED harness

Next ==
  \/ LogFolder
  \/ CreateLog
  \/ CheckPermissions
  \/ EnsurePoetry
  \/ CreateVirtualenv
  \/ InstallTools
  \/ InstallDependencies
  \/ RunChecksChdir
  \/ RunChecks
  \/ PrintBanner
  \/ DeleteLogFolder

Spec == Init /\ [][Next]_vars

\* ------------------------------------- install_tools called more than once
\* a harness around install_tools: poetry is on the search path, any set of
\* tools is registered, and install_tools is called MaxCalls times in a row
InitTools ==
  /\ \E registered \in SUBSET ToolSet :
       LET log_folder == Path(TRUE, <<"logs">>)
           project_folder == Path(TRUE, <<"proj">>)
           fs == InitialFS(log_folder, project_folder, "rw", "none", TRUE, FALSE, FALSE, FALSE)
       IN /\ run = [Start(EnvDirs[1], log_folder, project_folder, fs, registered, TRUE)
                      EXCEPT !.pc = "install_tools"]
          /\ twin = [Start(EnvDirs[2], log_folder, project_folder, fs, registered, TRUE)
                       EXCEPT !.pc = "install_tools"]
  /\ harness = [calls |-> 1, mark |-> 0]

\* install_tools has returned and is called again
CallAgain ==
  /\ run.pc = "install_dependencies"
  /\ harness.calls < MaxCalls
  /\ run' = [run EXCEPT !.pc = "install_tools"]
  /\ twin' = [twin EXCEPT !.pc = "install_tools"]
  /\ harness' = [calls |-> harness.calls + 1, mark |-> Len(run.trace)]

NextTools ==
  \/ InstallTools
  \/ CallAgain

SpecTools == InitTools /\ [][NextTools]_vars

\* ------------------------------------------------- reading a run's trace
IsCheckRun(e) == e.op = "run" /\ \E k \in DOMAIN checks : e.arg = checks[k].command

IsShow(e) == e.op = "run" /\ \E t \in ToolSet : e.arg = ShowCmd(t)

IsAdd(e) == e.op = "run" /\ \E t \in ToolSet : e.arg = AddCmd(t)

CheckRuns(r) == SelectSeq(r.trace, IsCheckRun)

Shows(r) == SelectSeq(r.trace, IsShow)

Printed(r, piece) == \E k \in DOMAIN r.console : r.console[k] = piece

Probed(r, ret) ==
  \E k \in DOMAIN r.trace : r.trace[k].op = "check_permissions" /\ r.trace[k].err = ret

\* run_checks was entered and has returned
RunChecksReturned(r) == r.pc = "banner" \/ (r.pc = "done" /\ Probed(r, "True"))

\* the places where main and run_checks open the log file
LogSites == {"main:129", "main:138", "run_checks:76", "run_checks:84"}

\* the file main created at startup
CreatedLog(r) == Resolve(InitialCwd, r.log_file)

\* --------------------------------------------------------------- claims

\* C1: whatever the exit codes of the five checks, run_checks invokes the
\* five commands once each in the fixed order and returns; a non-zero exit
\* never stops the loop.  run_checks ends early only when a command cannot
\* be launched or the log cannot be opened for a reason other than a missing
\* file.
C1_AllChecksRun ==
  /\ RunChecksReturned(run) =>
       /\ Len(CheckRuns(run)) = Len(checks)
       /\ \A k \in DOMAIN checks :
            CheckRuns(run)[k].arg = checks[k].command /\ CheckRuns(run)[k].err = ""
  /\ run.pc = "checks" =>
       /\ Len(CheckRuns(run)) = run.i - 1
       /\ \A k \in 1..(run.i - 1) : CheckRuns(run)[k].arg = checks[k].command
  /\ (run.pc = "raised" /\ run.exc_at \in {"run_checks:73", "run_checks:76", "run_checks:84"}) =>
       LET last == run.trace[Len(run.trace)]
       IN /\ run.exc # "CalledProcessError"
          /\ \/ last.op = "run" /\ last.err = "FileNotFoundError"
             \/ last.op = "open_a" /\ last.err \notin {"", "FileNotFoundError"}

\* C1 witness: run_checks has returned after the first check failed and the
\* last one passed
C1_Witness ==
  /\ RunChecksReturned(run)
  /\ CheckRuns(run)[1].rc = 1
  /\ CheckRuns(run)[2].rc = 1
  /\ CheckRuns(run)[Len(checks)].rc = 0

\* the log text of one check run
Block(e) ==
  LET k == CHOOSE j \in DOMAIN checks : checks[j].command = e.arg
  IN IF e.rc = 0
       THEN <<checks[k].description, " succeeded.\n">> \o Stdout(e.arg)
       ELSE <<checks[k].description, " failed with error:\n">> \o Stderr(e.arg) \o <<"\n">>

RECURSIVE Blocks(_)
Blocks(es) == IF es = <<>> THEN <<>> ELSE Block(Head(es)) \o Blocks(Tail(es))

CreationLine(r) == <<"Log file created: ">> \o PathText(r.log_file) \o <<"\n">>

AppendsAllOpened(r) ==
  \A k \in DOMAIN r.trace : r.trace[k].op = "open_a" => r.trace[k].err = ""

\* C2: when every append could open the log, the text run_checks appended
\* is the five blocks in invocation order, "<description> succeeded." with
\* the stdout for exit code zero and "<description> failed with error:" with
\* the stderr and a newline otherwise; the file holds nothing else but the
\* creation line when it is the file main created.
C2_LogBlocks ==
  LET a == Resolve(run.cwd, run.log_file)
  IN (RunChecksReturned(run) /\ AppendsAllOpened(run) /\ a \in DOMAIN run.fs.files) =>
       /\ Len(CheckRuns(run)) = Len(checks)
       /\ run.fs.files[a] =
            (IF a = CreatedLog(run) THEN CreationLine(run) ELSE <<>>) \o Blocks(CheckRuns(run))

\* C2 witness: a returned run_checks with checks {pass, fail, pass, fail,
\* pass}, all logged
C2_Witness ==
  /\ RunChecksReturned(run) /\ AppendsAllOpened(run)
  /\ Resolve(run.cwd, run.log_file) \in DOMAIN run.fs.files
  /\ Len(CheckRuns(run)) = Len(checks)
  /\ \A k \in DOMAIN checks : CheckRuns(run)[k].rc = (k + 1) % 2

\* C3: a failure to open the log file, whatever its cause, is caught at
\* every place the program writes to the log, so no exception leaves main
\* from one of those places.
C3_LogFailuresCaught == ~(run.pc = "raised" /\ run.exc_at \in LogSites)

\* C4: when check_permissions returns False, main returns normally and has
\* looked up no poetry, run no command, changed no directory, printed no
\* banner, and written nothing to the log after the creation line but the
\* access-denied line.
C4_DeniedReturnsEarly ==
  Probed(run, "False") =>
    /\ run.pc = "done"
    /\ \A k \in DOMAIN run.trace : run.trace[k].op \in {"open_w", "check_permissions", "open_a"}
    /\ run.cwd = InitialCwd
    /\ ~Printed(run, Banner[1])
    /\ Len(SelectSeq(run.trace, LAMBDA e : e.op = "open_a")) = 1
    /\ CreatedLog(run) \in DOMAIN run.fs.files =>
         run.fs.files[CreatedLog(run)] \in
           {CreationLine(run) \o Denied(run) \o <<"\n">>, CreationLine(run)}

\* C5: every append of run_checks goes to the file main created at startup.
C5_SameLogFile ==
  \A k \in DOMAIN run.trace :
    run.trace[k].op = "open_a" => run.trace[k].arg = CreatedLog(run)

\* a command of the setup phase whose non-zero exit is fatal
IsFatalSetup(e) ==
  e.op = "run" /\ (e.arg \in {InstallerCmd, EnvUseCmd, InstallCmd} \/ IsAdd(e))

\* C6: a non-zero exit of the installer, of "poetry env use", of a "poetry
\* add" or of "poetry install" ends the run at once: it is the last call the
\* run makes, main has raised CalledProcessError, and no banner is printed.
\* A non-zero exit of "poetry show" does not: the tool's "poetry add" follows.
C6_SetupFailureHalts ==
  \A k \in DOMAIN run.trace :
    LET e == run.trace[k]
    IN /\ (IsFatalSetup(e) /\ e.err = "" /\ e.rc # 0) =>
            /\ k = Len(run.trace)
            /\ run.pc = "raised" /\ run.exc = "CalledProcessError"
            /\ ~Printed(run, Banner[1])
       /\ (IsShow(e) /\ e.err = "" /\ e.rc # 0) =>
            /\ k < Len(run.trace)
            /\ IsAdd(run.trace[k + 1])

\* C6 witness: a "poetry add" failed after an earlier tool was queried and
\* installed, and the run has stopped there
C6_Witness ==
  /\ run.pc = "raised" /\ run.trace # <<>>
  /\ IsAdd(run.trace[Len(run.trace)]) /\ run.trace[Len(run.trace)].rc # 0
  /\ \E k \in DOMAIN run.trace : IsAdd(run.trace[k]) /\ run.trace[k].rc = 0
  /\ Len(Shows(run)) < Len(tools)

\* C7: install_tools queries black, mypy, ruff, bandit, pydocstyle in that
\* order, and issues "poetry add --group dev <tool>" exactly after a query of
\* that tool that exited non-zero; a second call of install_tools after a
\* complete first one issues no install.
C7_InstallIffMissing ==
  /\ \A j \in DOMAIN Shows(run) :
       Shows(run)[j].arg = ShowCmd(tools[((j - 1) % Len(tools)) + 1])
  /\ \A k \in DOMAIN run.trace :
       LET e == run.trace[k]
       IN /\ (IsShow(e) /\ e.rc # 0) =>
               k < Len(run.trace) /\ run.trace[k + 1].arg = AddCmd(e.arg[3])
          /\ (IsShow(e) /\ e.rc = 0) =>
               (k = Len(run.trace) \/ ~IsAdd(run.trace[k + 1]))
          /\ IsAdd(e) =>
               /\ k > 1 /\ IsShow(run.trace[k - 1]) /\ run.trace[k - 1].rc # 0
               /\ run.trace[k - 1].arg = ShowCmd(e.arg[5])
  /\ harness.calls >= 2 =>
       \A k \in DOMAIN run.trace : k > harness.mark => ~IsAdd(run.trace[k])

\* C7 witness: the second call of install_tools has queried all five tools
\* after a first call that installed some of them
C7_Witness ==
  /\ harness.calls = 2 /\ run.pc = "install_dependencies"
  /\ Len(Shows(run)) = 2 * Len(tools)
  /\ \E k \in DOMAIN run.trace : IsAdd(run.trace[k])
  /\ \E k \in DOMAIN run.trace : IsShow(run.trace[k]) /\ run.trace[k].rc = 0 /\ k <= harness.mark

\* the step of main a call belongs to
Step(e) ==
  IF e.op = "open_w" THEN 1
  ELSE IF e.op = "check_permissions" THEN 2
  ELSE IF e.op = "which" THEN 3
  ELSE IF e.op = "run" /\ e.arg = InstallerCmd THEN 4
  ELSE IF e.op = "run" /\ e.arg = EnvUseCmd THEN 5
  ELSE IF IsShow(e) \/ IsAdd(e) THEN 6
  ELSE IF e.op = "run" /\ e.arg = InstallCmd THEN 7
  ELSE 8

Count(r, step) == Len(SelectSeq(r.trace, LAMBDA e : Step(e) = step))

\* C8: when the probe returns True, main's steps happen in the order log
\* creation, probe, poetry lookup, installer (iff poetry was not found),
\* "poetry env use", install_tools, "poetry install", run_checks, banner;
\* each step starts after the one before it has succeeded; no check runs
\* before "poetry install" exited zero; the banner follows run_checks.
C8_LinearOrder ==
  Probed(run, "True") =>
    /\ \A j, k \in DOMAIN run.trace : j < k => Step(run.trace[j]) <= Step(run.trace[k])
    /\ \A step \in {1, 2, 3, 4, 5, 7} : Count(run, step) <= 1
    /\ Count(run, 1) = 1
    /\ \A k \in DOMAIN run.trace :
         LET e == run.trace[k]
             before(step, ok(_)) ==
               \E j \in 1..(k - 1) : Step(run.trace[j]) = step /\ ok(run.trace[j])
             zero(x) == x.err = "" /\ x.rc = 0
         IN /\ e.op = "which" =>
                 (e.err = "None" <=> (k < Len(run.trace) /\ run.trace[k + 1].arg = InstallerCmd))
            /\ Step(e) = 4 => run.trace[k - 1].op = "which"
            /\ Step(e) = 5 =>
                 /\ before(3, LAMBDA x : x.err \in {"found", "None"})
                 /\ Count(run, 4) = 1 => before(4, zero)
            /\ Step(e) = 6 => before(5, zero)
            /\ Step(e) = 7 => before(5, zero) /\ Len(Shows(run)) = Len(tools)
            /\ Step(e) = 8 => before(7, zero)
    /\ Printed(run, Banner[1]) <=> run.pc = "done"
    /\ run.pc = "done" => Len(CheckRuns(run)) = Len(checks)

\* C8 witness: a complete run in which poetry was not found and installed,
\* a tool was installed, a check failed, and the banner is printed
C8_Witness ==
  /\ run.pc = "done" /\ Printed(run, Banner[1])
  /\ Count(run, 4) = 1
  /\ \E k \in DOMAIN run.trace : IsAdd(run.trace[k])
  /\ \E k \in DOMAIN run.trace : IsCheckRun(run.trace[k]) /\ run.trace[k].rc # 0

\* C9: check_permissions leaves the files of the probed directory and their
\* contents as they were, whether it returns True or False.
C9_ProbeLeavesDirectory ==
  [][(run.pc = "check_permissions" /\ run'.pc \in {"ensure_poetry", "done"}) =>
       DirFiles(run'.fs, Resolve(run.cwd, run.project_folder))
         = DirFiles(run.fs, Resolve(run.cwd, run.project_folder))]_vars

\* what a run lets the world see: everything but the value of --env-dir
Observable(r) == [r EXCEPT !.env_dir = NoPath, !.venv_dir = NoPath]

\* C10: two runs that differ only in --env-dir make the same calls with the
\* same arguments in the same order, are in the same working directory and
\* have written the same files and console; the virtual environment is
\* bound with "poetry env use python".
C10_EnvDirIrrelevant ==
  /\ run.env_dir # twin.env_dir
  /\ Observable(run) = Observable(twin)
  /\ \A k \in DOMAIN run.trace :
       (run.trace[k].op = "run" /\ Len(run.trace[k].arg) >= 3
          /\ run.trace[k].arg[1] = "poetry" /\ run.trace[k].arg[2] = "env")
         => run.trace[k].arg = EnvUseCmd

\* C10 witness: both runs are complete, each with its own --env-dir in
\* venv_dir, and "poetry env use" was called
C10_Witness ==
  /\ run.pc = "done" /\ Printed(run, Banner[1])
  /\ run.venv_dir = EnvDirs[1] /\ twin.venv_dir = EnvDirs[2]
  /\ \E k \in DOMAIN run.trace : run.trace[k].arg = EnvUseCmd

====
